---- MODULE Spec2Model ----
(***************************************************************************)
(* A model of computeDER (src/src/utils.ts): the sweep over the timeline   *)
(* boundaries, the overlap table, the greedy speaker mapping, the interval *)
(* classifier and the metric aggregator.                                   *)
(*                                                                         *)
(* Times are whole ticks; NaN and the two infinities are codes, and sums   *)
(* of times are rounded as floating-point sums are, see fl.  A percentage  *)
(* is held in thousandths of a percent (100% = 100000), see Percent.  A    *)
(* JavaScript Set or Map iterates                                          *)
(* in insertion order, so speaker sets and the overlap table are sequences *)
(* without duplicates, in insertion order.  A Segment's id field is not    *)
(* read by computeDER and is left out.                                     *)
(*                                                                         *)
(* The call is checked on four families of arguments: Spec (short lists of *)
(* any shape), SpecTurns (turn-taking lists), SpecNonFinite (NaN and       *)
(* infinite times) and SpecRounding (a long recording).                    *)
(*                                                                         *)
(* Further down: segmentsToRTTM and parseRTTMToSegments of the same file,  *)
(* on texts held character by character (SpecRoundTrip, SpecParse), and    *)
(* the editing handlers of the App, src/unnamed/part_000 (SpecEdit).       *)
(***************************************************************************)
EXTENDS Integers, Sequences, FiniteSets, TLC

VARIABLES refSegments, sysSegments, collar, pc, intervals, overlapTotals,
          scoredSpeechTime, sysToRefMapping, missedSpeechTime,
          falseAlarmTime, speakerErrorTime, metrics

\* The state of a call of computeDER.
derVars == <<refSegments, sysSegments, collar, pc, intervals, overlapTotals,
             scoredSpeechTime, sysToRefMapping, missedSpeechTime,
             falseAlarmTime, speakerErrorTime, metrics>>

\* The RTTM utilities: the list given to segmentsToRTTM, the lines the parsed
\* text was put together from, the text, and the list parseRTTMToSegments returns.
VARIABLES inputSegments, lines, rttmText, parsedSegments, rttmPc

rttmVars == <<inputSegments, lines, rttmText, parsedSegments, rttmPc>>

\* The editor of the App: the speaker legend, the ghost segment under the
\* pointer, the segment kept for undo, the undo toast, the pending 5-second
\* timers, the media duration, whether a system RTTM file is loaded, and the
\* reference RTTM file that is loaded; events counts the events handled so far.
VARIABLES speakers, ghostSeg, lastDeletedRef, toast, timers, mediaDuration, rttm, refRTTM,
          events

editVars == <<speakers, ghostSeg, lastDeletedRef, toast, timers, mediaDuration, rttm, refRTTM,
              events>>

vars == <<derVars, rttmVars, editVars>>

\* ---- bounds of the model ----
MaxT == 2
MaxLen == 2
MaxCollar == 1

\* Speaker ids are arbitrary strings; the empty string is one of them.
SpeakerIds == {"", "A", "B"}

Segment == {s \in [speakerId : SpeakerIds, start : 0..MaxT, end : 0..MaxT] :
              s.start <= s.end}

SegmentLists == UNION {[1..n -> Segment] : n \in 0..MaxLen}

ErrorType == {"OK", "MS", "FA", "SER"}

Max(a, b) == IF a >= b THEN a ELSE b

Range(f) == {f[i] : i \in DOMAIN f}

\* ---- JavaScript numbers ----
\* A time is a whole tick or one of the three numbers that are not finite, held
\* as codes far above the ticks in use: Infinity, -Infinity (the negated code)
\* and NaN.  The operators below are the JavaScript ones on these values; on
\* ticks they are the integer ones.
Infinity == 1000

NaN == 2000

IsNaN(x) == x = NaN

IsFiniteNumber(n) == ~IsNaN(n) /\ n # Infinity /\ n # -Infinity

\* a <= b and a > b: false when an operand is NaN
lessEq(a, b) == ~IsNaN(a) /\ ~IsNaN(b) /\ a <= b

greater(a, b) == ~IsNaN(a) /\ ~IsNaN(b) /\ a > b

\* A finite number has a significand of limited length; the result of an
\* addition or subtraction is rounded to the nearest number that has one, a tie
\* to the one with an even significand.  The length is scaled down from the 53
\* bits of a double: whole ticks up to 2^SignificandBits are exact, from there on
\* the numbers are 2, 4, 8, ... ticks apart.
SignificandBits == 6

RECURSIVE unitInLastPlace(_, _)
unitInLastPlace(x, u) ==
  IF x < u * 2^SignificandBits THEN u ELSE unitInLastPlace(x, 2 * u)

roundToNearestEven(x) ==
  LET u == unitInLastPlace(x, 1)
      q == x \div u
      r == x % u
  IN IF 2 * r < u \/ (2 * r = u /\ q % 2 = 0) THEN q * u ELSE (q + 1) * u

fl(x) ==
  IF x < 0 THEN -roundToNearestEven(-x) ELSE roundToNearestEven(x)

\* a + c and a - c for a finite c
plus(a, c) == IF IsFiniteNumber(a) THEN fl(a + c) ELSE a

minus(a, c) == IF IsFiniteNumber(a) THEN fl(a - c) ELSE a

\* Math.max(0, x): NaN when x is NaN
mathMax0(x) == IF IsNaN(x) THEN NaN ELSE Max(0, x)

\* The comparator (a, b) => a - b as sort() reads it: a NaN result counts as 0.
\* Infinity - Infinity is NaN as well.
compare(a, b) == IF IsNaN(a) \/ IsNaN(b) THEN 0 ELSE a - b

\* ---- Array.prototype.sort with (a, b) => a.start - b.start (stable) ----
\* With a NaN start among three or more segments the comparator is not
\* consistent and the order is left to the engine; this is the order of an
\* insertion sort.  Up to two segments the order is determined.
RECURSIVE SortByStart(_)
SortByStart(segs) ==
  IF segs = <<>> THEN <<>>
  ELSE LET n == Len(segs)
           x == segs[n]
           done == SortByStart(SubSeq(segs, 1, n - 1))
           k == Cardinality({i \in 1..Len(done) : compare(done[i].start, x.start) <= 0})
       IN SubSeq(done, 1, k) \o <<x>> \o SubSeq(done, k + 1, Len(done))

applyCollar(segments, c) ==
  [i \in 1..Len(segments) |->
     [speakerId |-> segments[i].speakerId,
      start |-> mathMax0(minus(segments[i].start, c)),
      end |-> plus(segments[i].end, c)]]

adjusted(segments, c) ==
  IF c > 0 THEN applyCollar(SortByStart(segments), c)
  ELSE SortByStart(segments)

\* ---- the boundary set and its sorted array ----
boundaries(adjustedRef, adjustedSys) ==
  {adjustedRef[i].start : i \in DOMAIN adjustedRef} \cup
  {adjustedRef[i].end : i \in DOMAIN adjustedRef} \cup
  {adjustedSys[i].start : i \in DOMAIN adjustedSys} \cup
  {adjustedSys[i].end : i \in DOMAIN adjustedSys}

\* Mutant: the comparator reversed, (a, b) => b - a.
RECURSIVE SortDescending(_)
SortDescending(S) ==
  IF S = {} THEN <<>>
  ELSE LET m == CHOOSE x \in S : \A y \in S : x >= y
       IN <<m>> \o SortDescending(S \ {m})

\* Array.prototype.sort with (a, b) => a - b, on the distinct values of a Set
RECURSIVE SortAscending(_)
SortAscending(S) ==
  IF S = {} THEN <<>>
  ELSE LET m == CHOOSE x \in S : \A y \in S : x <= y
       IN <<m>> \o SortAscending(S \ {m})

\* Mutant: the boundaries are kept in an array, not a Set: a value is held once
\* for the start and once for the end it came from.
timesWithDuplicates(adjustedRef, adjustedSys) ==
  LET t == SortAscending({n \in boundaries(adjustedRef, adjustedSys) : IsFiniteNumber(n)})
  IN [i \in 1..(2 * Len(t)) |-> t[(i + 1) \div 2]]

times(adjustedRef, adjustedSys) ==
  SortAscending({n \in boundaries(adjustedRef, adjustedSys) : IsFiniteNumber(n)})

\* ---- sweep helpers ----
\* while (pointer < segs.length && segs[pointer].start <= t0) push, pointer++
\* pointer is 0-based as in the source; segs[pointer] is segs[pointer + 1] here.
RECURSIVE Advance(_, _, _, _)
Advance(segs, pointer, active, t0) ==
  IF pointer < Len(segs) /\ lessEq(segs[pointer + 1].start, t0)
  THEN Advance(segs, pointer + 1, Append(active, segs[pointer + 1]), t0)
  ELSE [pointer |-> pointer, active |-> active]

\* Mutant: a segment that ends at t0 is kept.
StillActiveInclusive(active, t0) ==
  SelectSeq(active, LAMBDA s : greater(s.end, t0) \/ s.end = t0)

StillActive(active, t0) == SelectSeq(active, LAMBDA s : greater(s.end, t0))

\* Mutant: an array of the active segments' speakers, duplicates kept.
getSpeakerList(segments) ==
  [i \in DOMAIN segments |-> segments[i].speakerId]

RECURSIVE getSpeakerSet(_)
getSpeakerSet(segments) ==
  IF segments = <<>> THEN <<>>
  ELSE LET n == Len(segments)
           before == getSpeakerSet(SubSeq(segments, 1, n - 1))
       IN IF segments[n].speakerId \in Range(before) THEN before
          ELSE Append(before, segments[n].speakerId)

\* The overlap table: a sequence of rows [ref, sysMap], sysMap a sequence of
\* entries [sys, duration]; both in insertion order.
SysMapSet(sysMap, sysSpk, duration) ==
  IF \E j \in DOMAIN sysMap : sysMap[j].sys = sysSpk
  THEN [j \in DOMAIN sysMap |->
          IF sysMap[j].sys = sysSpk
          THEN [sys |-> sysSpk, duration |-> fl(sysMap[j].duration + duration)]
          ELSE sysMap[j]]
  ELSE Append(sysMap, [sys |-> sysSpk, duration |-> 0 + duration])

addOverlap(totals, refSpk, sysSpk, duration) ==
  LET withRow == IF \E i \in DOMAIN totals : totals[i].ref = refSpk
                 THEN totals
                 ELSE Append(totals, [ref |-> refSpk, sysMap |-> <<>>])
  IN [i \in DOMAIN withRow |->
        IF withRow[i].ref = refSpk
        THEN [ref |-> refSpk,
              sysMap |-> SysMapSet(withRow[i].sysMap, sysSpk, duration)]
        ELSE withRow[i]]

\* for (refSpk of refSpeakers) for (sysSpk of sysSpeakers) addOverlap(...)
RECURSIVE AddOverlaps(_, _, _, _, _, _)
AddOverlaps(totals, refSpeakers, sysSpeakers, i, j, duration) ==
  IF i > Len(refSpeakers) THEN totals
  ELSE IF j > Len(sysSpeakers)
       THEN AddOverlaps(totals, refSpeakers, sysSpeakers, i + 1, 1, duration)
       ELSE AddOverlaps(addOverlap(totals, refSpeakers[i], sysSpeakers[j], duration),
                        refSpeakers, sysSpeakers, i, j + 1, duration)

\* Mutant: every active reference speaker adds the interval's duration.
accumulateScoredPerSpeaker(scored, refSpeakers, duration) ==
  scored + Len(refSpeakers) * duration

\* if (refSpeakers.size > 0) scoredSpeechTime += duration
accumulateScored(scored, refSpeakers, duration) ==
  IF Len(refSpeakers) > 0 THEN fl(scored + duration) ELSE scored

SweepStart ==
  [refPointer |-> 0, sysPointer |-> 0, refActive |-> <<>>, sysActive |-> <<>>,
   intervals |-> <<>>, overlapTotals |-> <<>>, scoredSpeechTime |-> 0]

\* Mutant: any interval with speech, reference or system, is scored.
SweepStepScoringAnySpeech(st, adjustedRef, adjustedSys, ts, i) ==
  LET t0 == ts[i]
      t1 == ts[i + 1]
      duration == Max(0, fl(t1 - t0))
      r == Advance(adjustedRef, st.refPointer, st.refActive, t0)
      refActive == StillActive(r.active, t0)
      s == Advance(adjustedSys, st.sysPointer, st.sysActive, t0)
      sysActive == StillActive(s.active, t0)
      refSpeakers == getSpeakerSet(refActive)
      sysSpeakers == getSpeakerSet(sysActive)
  IN [refPointer |-> r.pointer, sysPointer |-> s.pointer,
      refActive |-> refActive, sysActive |-> sysActive,
      intervals |-> Append(st.intervals,
                           [start |-> t0, end |-> t1, type |-> "OK",
                            ref |-> refSpeakers, sys |-> sysSpeakers]),
      overlapTotals |->
        IF Len(refSpeakers) > 0 /\ Len(sysSpeakers) > 0
        THEN AddOverlaps(st.overlapTotals, refSpeakers, sysSpeakers, 1, 1, duration)
        ELSE st.overlapTotals,
      scoredSpeechTime |->
        accumulateScored(st.scoredSpeechTime, refSpeakers \o sysSpeakers, duration)]

\* One iteration of the loop over the atomic intervals (i is 1-based).
SweepStep(st, adjustedRef, adjustedSys, ts, i) ==
  LET t0 == ts[i]
      t1 == ts[i + 1]
      duration == Max(0, fl(t1 - t0))
      r == Advance(adjustedRef, st.refPointer, st.refActive, t0)
      refActive == StillActive(r.active, t0)
      s == Advance(adjustedSys, st.sysPointer, st.sysActive, t0)
      sysActive == StillActive(s.active, t0)
      refSpeakers == getSpeakerSet(refActive)
      sysSpeakers == getSpeakerSet(sysActive)
  IN [refPointer |-> r.pointer, sysPointer |-> s.pointer,
      refActive |-> refActive, sysActive |-> sysActive,
      intervals |-> Append(st.intervals,
                           [start |-> t0, end |-> t1, type |-> "OK",
                            ref |-> refSpeakers, sys |-> sysSpeakers]),
      overlapTotals |->
        IF Len(refSpeakers) > 0 /\ Len(sysSpeakers) > 0
        THEN AddOverlaps(st.overlapTotals, refSpeakers, sysSpeakers, 1, 1, duration)
        ELSE st.overlapTotals,
      scoredSpeechTime |->
        accumulateScored(st.scoredSpeechTime, refSpeakers, duration)]

RECURSIVE SweepLoop(_, _, _, _, _)
SweepLoop(st, adjustedRef, adjustedSys, ts, i) ==
  IF i <= Len(ts) - 1
  THEN SweepLoop(SweepStep(st, adjustedRef, adjustedSys, ts, i),
                 adjustedRef, adjustedSys, ts, i + 1)
  ELSE st

sweep(refSegs, sysSegs, c) ==
  LET adjustedRef == adjusted(refSegs, c)
      adjustedSys == adjusted(sysSegs, c)
  IN SweepLoop(SweepStart, adjustedRef, adjustedSys,
               times(adjustedRef, adjustedSys), 1)

\* ---- greedy speaker mapping ----
RECURSIVE FlattenRow(_, _)
FlattenRow(refSpk, sysMap) ==
  IF sysMap = <<>> THEN <<>>
  ELSE <<[ref |-> refSpk, sys |-> Head(sysMap).sys,
          duration |-> Head(sysMap).duration]>> \o FlattenRow(refSpk, Tail(sysMap))

RECURSIVE mappingPairs(_)
mappingPairs(totals) ==
  IF totals = <<>> THEN <<>>
  ELSE FlattenRow(Head(totals).ref, Head(totals).sysMap) \o mappingPairs(Tail(totals))

\* Mutant: the pairs are scanned in the order of the overlap table, unsorted.
Unsorted(pairs) == pairs

\* Array.prototype.sort with (a, b) => b.duration - a.duration (stable)
RECURSIVE SortByDurationDesc(_)
SortByDurationDesc(pairs) ==
  IF pairs = <<>> THEN <<>>
  ELSE LET n == Len(pairs)
           x == pairs[n]
           done == SortByDurationDesc(SubSeq(pairs, 1, n - 1))
           k == Cardinality({i \in 1..Len(done) : done[i].duration >= x.duration})
       IN SubSeq(done, 1, k) \o <<x>> \o SubSeq(done, k + 1, Len(done))

\* Mutant: the claimed reference speakers are not consulted.
CommitsIgnoringUsedRef(pair, usedRefSpeakers, usedSysSpeakers) ==
  /\ ~(pair.duration <= 0)
  /\ ~(pair.sys \in usedSysSpeakers)

\* The two `continue` guards of the greedy loop, negated.
Commits(pair, usedRefSpeakers, usedSysSpeakers) ==
  /\ ~(pair.duration <= 0)
  /\ ~(pair.ref \in usedRefSpeakers \/ pair.sys \in usedSysSpeakers)

MapSet(m, key, val) ==
  [k \in DOMAIN m \cup {key} |-> IF k = key THEN val ELSE m[k]]

GreedyStart ==
  [usedRefSpeakers |-> {}, usedSysSpeakers |-> {},
   sysToRefMapping |-> [k \in {} |-> ""]]

RECURSIVE GreedyLoop(_, _)
GreedyLoop(g, pairs) ==
  IF pairs = <<>> THEN g
  ELSE LET pair == Head(pairs)
       IN IF Commits(pair, g.usedRefSpeakers, g.usedSysSpeakers)
          THEN GreedyLoop([usedRefSpeakers |-> g.usedRefSpeakers \cup {pair.ref},
                           usedSysSpeakers |-> g.usedSysSpeakers \cup {pair.sys},
                           sysToRefMapping |->
                             MapSet(g.sysToRefMapping, pair.sys, pair.ref)],
                          Tail(pairs))
          ELSE GreedyLoop(g, Tail(pairs))

buildMapping(totals) ==
  GreedyLoop(GreedyStart, SortByDurationDesc(mappingPairs(totals))).sysToRefMapping

\* ---- interval classifier ----
\* A JavaScript string is truthy unless it is empty.
Truthy(str) == str # ""

\* mappedRefSpk && interval.ref.has(mappedRefSpk), for some sysSpk of interval.sys
hasCorrectMapping(interval, mapping) ==
  \E j \in DOMAIN interval.sys :
     /\ interval.sys[j] \in DOMAIN mapping
     /\ Truthy(mapping[interval.sys[j]])
     /\ mapping[interval.sys[j]] \in Range(interval.ref)

\* Mutant: the MS and FA branches exchanged.
classifySwapped(interval, mapping) ==
  IF Len(interval.ref) > 0 /\ Len(interval.sys) = 0 THEN "FA"
  ELSE IF Len(interval.ref) = 0 /\ Len(interval.sys) > 0 THEN "MS"
  ELSE IF Len(interval.ref) > 0 /\ Len(interval.sys) > 0
       THEN IF ~hasCorrectMapping(interval, mapping) THEN "SER" ELSE "OK"
       ELSE interval.type

\* Mutant: the FA branch is missing; system speech alone stays 'OK'.
classifyWithoutFalseAlarm(interval, mapping) ==
  IF Len(interval.ref) > 0 /\ Len(interval.sys) = 0 THEN "MS"
  ELSE IF Len(interval.ref) > 0 /\ Len(interval.sys) > 0
       THEN IF ~hasCorrectMapping(interval, mapping) THEN "SER" ELSE "OK"
       ELSE interval.type

classify(interval, mapping) ==
  IF Len(interval.ref) > 0 /\ Len(interval.sys) = 0 THEN "MS"
  ELSE IF Len(interval.ref) = 0 /\ Len(interval.sys) > 0 THEN "FA"
  ELSE IF Len(interval.ref) > 0 /\ Len(interval.sys) > 0
       THEN IF ~hasCorrectMapping(interval, mapping) THEN "SER" ELSE "OK"
       ELSE interval.type

classifyAll(ivs, mapping) ==
  [i \in DOMAIN ivs |-> [ivs[i] EXCEPT !.type = classify(ivs[i], mapping)]]

\* Mutant: intervals are counted instead of their durations.
RECURSIVE errorTimeCountingIntervals(_, _)
errorTimeCountingIntervals(ivs, type) ==
  IF ivs = <<>> THEN 0
  ELSE (IF Head(ivs).type = type THEN 1 ELSE 0)
       + errorTimeCountingIntervals(Tail(ivs), type)

\* missedSpeechTime, falseAlarmTime, speakerErrorTime += duration, interval by
\* interval in the order of the list.
RECURSIVE errorTime(_, _)
errorTime(ivs, type) ==
  IF ivs = <<>> THEN 0
  ELSE LET n == Len(ivs)
           duration == Max(0, fl(ivs[n].end - ivs[n].start))
           before == errorTime(SubSeq(ivs, 1, n - 1), type)
       IN IF ivs[n].type = type THEN fl(before + duration) ELSE before

\* ---- metric aggregator: percentages in thousandths of a percent ----
\* Mutant: without scored speech every rate is reported as 100%.
PercentFullWhenUnscored(errTime, scored) ==
  IF scored > 0 THEN (errTime * 100000) \div scored ELSE 100000

\* Mutant: the percentage factor left out.
PercentAsFraction(errTime, scored) ==
  IF scored > 0 THEN errTime \div scored ELSE 0

Percent(errTime, scored) ==
  IF scored > 0 THEN (errTime * 100000) \div scored ELSE 0

\* Mutant: the false-alarm term left out of the sum.
DER_withoutFA(MS, FA, SER) == MS + SER

DER_percent(MS, FA, SER) == MS + FA + SER

NoMetrics == [MS |-> 0, FA |-> 0, SER |-> 0, DER |-> 0, scored |-> 0]

\* ---- the state machine: one call of computeDER ----
\* The editor is not open.
EditIdle ==
  /\ speakers = <<>>
  /\ ghostSeg = <<>>
  /\ lastDeletedRef = <<>>
  /\ toast = FALSE
  /\ timers = 0
  /\ mediaDuration = 0
  /\ rttm = FALSE
  /\ refRTTM = <<>>
  /\ events = 0

\* No RTTM text is being written or read.
RttmIdle ==
  /\ inputSegments = <<>>
  /\ lines = <<>>
  /\ rttmText = <<>>
  /\ parsedSegments = <<>>
  /\ rttmPc = "idle"

Init ==
  /\ refSegments \in SegmentLists
  /\ sysSegments \in SegmentLists
  /\ collar \in 0..MaxCollar
  /\ pc = "call"
  /\ intervals = <<>>
  /\ overlapTotals = <<>>
  /\ scoredSpeechTime = 0
  /\ sysToRefMapping = [k \in {} |-> ""]
  /\ missedSpeechTime = 0
  /\ falseAlarmTime = 0
  /\ speakerErrorTime = 0
  /\ metrics = NoMetrics
  /\ RttmIdle
  /\ EditIdle

\* Mutant: sort() is called on the argument array itself, without slice().
argumentSortedInPlace(segments, c) == SortByStart(segments)

\* An argument array as the call leaves it.  sort() works in place, but on the
\* array slice() returned; applyCollar builds new segment objects with map() and
\* a spread; nothing else writes to a segment.  The caller's array and its
\* segments are as they were passed.
argumentAfterCall(segments, c) == segments

\* computeDER(refSegments, sysSegments, collar): the whole call, from the sorted
\* copies to the returned result.  The locals the result is built from are kept
\* in the state next to the returned intervals and metrics.
computeDER ==
  /\ pc = "call"
  /\ \E st \in {sweep(refSegments, sysSegments, collar)} :
       \E mapping \in {buildMapping(st.overlapTotals)} :
         \E classified \in {classifyAll(st.intervals, mapping)} :
           \E MS_percent \in {Percent(errorTime(classified, "MS"), st.scoredSpeechTime)},
              FA_percent \in {Percent(errorTime(classified, "FA"), st.scoredSpeechTime)},
              SER_percent \in {Percent(errorTime(classified, "SER"), st.scoredSpeechTime)} :
             /\ overlapTotals' = st.overlapTotals
             /\ scoredSpeechTime' = st.scoredSpeechTime
             /\ sysToRefMapping' = mapping
             /\ intervals' = classified
             /\ missedSpeechTime' = errorTime(classified, "MS")
             /\ falseAlarmTime' = errorTime(classified, "FA")
             /\ speakerErrorTime' = errorTime(classified, "SER")
             /\ metrics' = [MS |-> MS_percent, FA |-> FA_percent, SER |-> SER_percent,
                            DER |-> DER_percent(MS_percent, FA_percent, SER_percent),
                            scored |-> st.scoredSpeechTime]
  /\ pc' = "done"
  /\ refSegments' = argumentAfterCall(refSegments, collar)
  /\ sysSegments' = argumentAfterCall(sysSegments, collar)
  /\ UNCHANGED collar
  /\ UNCHANGED <<rttmVars, editVars>>

Next == computeDER

Spec == Init /\ [][Next]_vars

\* ======================= properties =======================
Done == pc = "done"

MinOf(S) == CHOOSE x \in S : \A y \in S : x <= y
MaxOf(S) == CHOOSE x \in S : \A y \in S : x >= y

\* The collar-adjusted bounds of an input segment, as the contract states them.
AdjStart(seg) == IF collar > 0 THEN Max(0, seg.start - collar) ELSE seg.start
AdjEnd(seg) == seg.end + collar

InputSegments == Range(refSegments) \cup Range(sysSegments)

BoundaryValues ==
  {AdjStart(seg) : seg \in InputSegments} \cup {AdjEnd(seg) : seg \in InputSegments}

RECURSIVE SumOfDurations(_)
SumOfDurations(segs) ==
  IF segs = <<>> THEN 0
  ELSE (Head(segs).end - Head(segs).start) + SumOfDurations(Tail(segs))

\* The ticks [t, t+1) during which some reference segment is active.
RefCoveredTicks ==
  {t \in 0..(MaxT + MaxCollar) :
     \E i \in DOMAIN refSegments :
        AdjStart(refSegments[i]) <= t /\ t < AdjEnd(refSegments[i])}

AllRatesZero ==
  metrics.MS = 0 /\ metrics.FA = 0 /\ metrics.SER = 0 /\ metrics.DER = 0

\* C1: the returned intervals are sorted by start ascending, each interval's end
\* is the next interval's start, and they run from the smallest to the largest
\* collar-adjusted segment bound.
C1_Partition ==
  Done =>
    /\ \A i \in 1..(Len(intervals) - 1) :
          /\ intervals[i].start < intervals[i + 1].start
          /\ intervals[i].end = intervals[i + 1].start
    /\ \A i \in DOMAIN intervals : intervals[i].start <= intervals[i].end
    /\ intervals # <<>> =>
          /\ intervals[1].start = MinOf(BoundaryValues)
          /\ intervals[Len(intervals)].end = MaxOf(BoundaryValues)
    /\ intervals = <<>> => Cardinality(BoundaryValues) <= 1

C1_Witness ==
  /\ Done
  /\ Len(intervals) >= 3
  /\ collar > 0
  /\ refSegments # <<>>
  /\ sysSegments # <<>>

\* C2: when the system list is identical to the reference list, MS, FA, SER and
\* DER are all 0.
C2_PerfectMatch ==
  (Done /\ sysSegments = refSegments) => AllRatesZero

\* Away from the empty reference speaker id the perfect-match law holds, also
\* with simultaneous speakers and tied overlaps: the failures of
\* C2_PerfectMatch all go through the truthiness test of hasCorrectMapping.
NoEmptyRefSpeakerId ==
  \A i \in DOMAIN refSegments : refSegments[i].speakerId # ""

PerfectMatchWithNonEmptyIds ==
  (Done /\ sysSegments = refSegments /\ NoEmptyRefSpeakerId) => AllRatesZero

\* C3 as stated: with identical lists, scored is the sum of the reference
\* segments' durations (end - start); taken without a collar.
C3_ScoredIsSumOfDurations ==
  (Done /\ sysSegments = refSegments /\ collar = 0) =>
     metrics.scored = SumOfDurations(refSegments)

NoTwoRefSegmentsOverlap ==
  \A i, j \in DOMAIN refSegments :
     i < j => \/ refSegments[i].end <= refSegments[j].start
              \/ refSegments[j].end <= refSegments[i].start

\* C3 amended: with identical lists, scored is the length of the time during
\* which at least one (collar-adjusted) reference segment is active, time covered
\* by several segments counted once; it is the sum of the durations when there is
\* no collar and no two reference segments overlap.
C3_ScoredIsCoveredTime ==
  (Done /\ sysSegments = refSegments) =>
     /\ metrics.scored = Cardinality(RefCoveredTicks)
     /\ (collar = 0 /\ NoTwoRefSegmentsOverlap) =>
           metrics.scored = SumOfDurations(refSegments)

C3_Witness ==
  /\ Done
  /\ sysSegments = refSegments
  /\ Len(refSegments) = 2
  /\ refSegments[1].speakerId # refSegments[2].speakerId
  /\ ~NoTwoRefSegmentsOverlap
  /\ metrics.scored > 0
  /\ metrics.scored < SumOfDurations(refSegments)

\* C4 as stated: an empty system list and a non-empty reference list give
\* MS = 100 and FA = SER = 0.
C4_TotalMiss ==
  (Done /\ sysSegments = <<>> /\ refSegments # <<>>) =>
     metrics.MS = 100000 /\ metrics.FA = 0 /\ metrics.SER = 0

SomeRefSegmentHasLength ==
  \E i \in DOMAIN refSegments : AdjStart(refSegments[i]) < AdjEnd(refSegments[i])

\* C4 amended: with an empty system list, MS = 100 and FA = SER = 0 when some
\* reference segment has (collar-adjusted) end > start; when every reference
\* segment is empty, scored = 0 and MS = FA = SER = 0.  A single reference
\* segment [0, MaxT) gives one MS interval [0, MaxT) and scored = MaxT.
C4_TotalMissWithSpeech ==
  (Done /\ sysSegments = <<>> /\ refSegments # <<>>) =>
     /\ SomeRefSegmentHasLength =>
           metrics.MS = 100000 /\ metrics.FA = 0 /\ metrics.SER = 0
     /\ ~SomeRefSegmentHasLength => metrics.scored = 0 /\ AllRatesZero
     /\ (Len(refSegments) = 1 /\ collar = 0 /\ refSegments[1].start = 0
         /\ refSegments[1].end = MaxT) =>
           /\ Len(intervals) = 1
           /\ intervals[1].start = 0 /\ intervals[1].end = MaxT
           /\ intervals[1].type = "MS"
           /\ metrics.scored = MaxT

C4_Witness ==
  /\ Done
  /\ sysSegments = <<>>
  /\ Len(refSegments) = 2
  /\ SomeRefSegmentHasLength
  /\ metrics.MS = 100000
  /\ \E i \in DOMAIN intervals : intervals[i].type = "OK"

\* C5: the speaker mapping is injective: no reference speaker is the image of
\* two system speakers (a system speaker has one image, the mapping being a Map).
C5_MappingInjective ==
  Done =>
    \A s1, s2 \in DOMAIN sysToRefMapping :
       sysToRefMapping[s1] = sysToRefMapping[s2] => s1 = s2

C5_Witness ==
  /\ Done
  /\ Cardinality(DOMAIN sysToRefMapping) = 2
  /\ \E i \in DOMAIN overlapTotals : Len(overlapTotals[i].sysMap) = 2

\* C6: the returned DER is the sum of the returned MS, FA and SER.
C6_MetricIdentity ==
  Done => metrics.DER = metrics.MS + metrics.FA + metrics.SER

C6_Witness ==
  /\ Done
  /\ metrics.MS > 0
  /\ metrics.FA > 0
  /\ metrics.SER > 0

\* C7: two empty lists give an empty interval list and MS, FA, SER, DER and
\* scored all 0.
C7_ZeroInput ==
  (Done /\ refSegments = <<>> /\ sysSegments = <<>>) =>
     /\ intervals = <<>>
     /\ AllRatesZero
     /\ metrics.scored = 0

C7_Witness ==
  /\ Done
  /\ refSegments = <<>>
  /\ sysSegments = <<>>
  /\ collar = 0
  /\ metrics = NoMetrics

\* C8: whenever scored is 0, MS, FA, SER and DER are exactly 0, whatever the
\* system segments are.
C8_ZeroScored ==
  (Done /\ metrics.scored = 0) => AllRatesZero

C8_Witness ==
  /\ Done
  /\ metrics.scored = 0
  /\ falseAlarmTime > 0
  /\ refSegments # <<>>

\* C9: an interval is MS exactly when its reference set is non-empty and its
\* system set empty, FA exactly when its reference set is empty and its system
\* set non-empty, and OK when both are empty.
C9_MissAndFalseAlarm ==
  Done =>
    \A i \in DOMAIN intervals :
       LET R == Range(intervals[i].ref)
           S == Range(intervals[i].sys)
       IN /\ intervals[i].type \in ErrorType
          /\ intervals[i].type = "MS" <=> (R # {} /\ S = {})
          /\ intervals[i].type = "FA" <=> (R = {} /\ S # {})
          /\ (R = {} /\ S = {}) => intervals[i].type = "OK"

C9_Witness ==
  /\ Done
  /\ \E i \in DOMAIN intervals : intervals[i].type = "MS"
  /\ \E i \in DOMAIN intervals : intervals[i].type = "FA"
  /\ \E i \in DOMAIN intervals :
        intervals[i].ref # <<>> /\ intervals[i].sys # <<>>

\* C10: an interval with both sets non-empty is OK if some system speaker in it
\* is mapped to a reference speaker in it, and SER otherwise, for every speaker
\* id value.
C10_AnyCorrectMappingSuffices ==
  Done =>
    \A i \in DOMAIN intervals :
       LET R == Range(intervals[i].ref)
           S == Range(intervals[i].sys)
       IN (R # {} /\ S # {}) =>
            intervals[i].type =
              (IF \E s \in S : s \in DOMAIN sysToRefMapping /\ sysToRefMapping[s] \in R
               THEN "OK" ELSE "SER")

\* With no empty reference speaker id the classification of C10 holds.
AnyCorrectMappingSufficesWithNonEmptyIds ==
  (Done /\ NoEmptyRefSpeakerId) => C10_AnyCorrectMappingSuffices

\* The activity sets of the definition: the speakers with a segment whose
\* (collar-adjusted) start is at or before t0 and whose end is after t0.
ActiveSpeakers(segs, t0) ==
  {segs[k].speakerId : k \in {j \in DOMAIN segs :
                                 AdjStart(segs[j]) <= t0 /\ AdjEnd(segs[j]) > t0}}

\* C11: for every atomic interval the sweep's reference and system sets are the
\* activity sets of the definition, obtained by re-scanning all segments.
C11_SweepEqualsRescan ==
  Done =>
    \A i \in DOMAIN intervals :
       /\ Range(intervals[i].ref) = ActiveSpeakers(refSegments, intervals[i].start)
       /\ Range(intervals[i].sys) = ActiveSpeakers(sysSegments, intervals[i].start)

C11_Witness ==
  /\ Done
  /\ \E i \in DOMAIN refSegments : refSegments[i].start = refSegments[i].end
  /\ Len(sysSegments) = 2
  /\ sysSegments[1].speakerId = sysSegments[2].speakerId
  /\ sysSegments[1].start > sysSegments[2].start
  /\ sysSegments[1].end < sysSegments[2].end
  /\ Len(intervals) >= 2
  /\ \E i \in DOMAIN intervals : intervals[i].ref # <<>> /\ intervals[i].sys # <<>>
  /\ \E i \in DOMAIN intervals : intervals[i].ref = <<>>

\* C12: scored depends on the reference list and the collar only: it is the time
\* with an active reference segment, and the same as with no system segments.
C12_ScoredIndependentOfSystem ==
  Done =>
    /\ metrics.scored = Cardinality(RefCoveredTicks)
    /\ metrics.scored = sweep(refSegments, <<>>, collar).scoredSpeechTime

C12_Witness ==
  /\ Done
  /\ sysSegments # refSegments
  /\ \E i \in 1..(Len(intervals) - 1) :
        /\ intervals[i].ref # <<>>
        /\ intervals[i].ref = intervals[i + 1].ref
        /\ intervals[i].sys # intervals[i + 1].sys
        /\ \A k \in DOMAIN refSegments :
              /\ AdjStart(refSegments[k]) # intervals[i].end
              /\ AdjEnd(refSegments[k]) # intervals[i].end
  /\ \E i \in DOMAIN intervals : intervals[i].type = "FA"

\* The ticks [t, t+1) with system speech and no reference speech.
FalseAlarmTicks ==
  {t \in 0..(MaxT + MaxCollar) :
     /\ ActiveSpeakers(sysSegments, t) # {}
     /\ ActiveSpeakers(refSegments, t) = {}}

\* C14: FA is the time with system speech and no reference speech, over scored,
\* times 100; reference A[0,1) with system B[0,1), ""[1,2) has scored 1, FA 100.
C14_FalseAlarmOverScored ==
  Done =>
    /\ falseAlarmTime = Cardinality(FalseAlarmTicks)
    /\ metrics.scored > 0 =>
          metrics.FA =
            (Cardinality(FalseAlarmTicks) * 100000) \div Cardinality(RefCoveredTicks)
    /\ (/\ collar = 0
        /\ refSegments = <<[speakerId |-> "A", start |-> 0, end |-> 1]>>
        /\ sysSegments = <<[speakerId |-> "B", start |-> 0, end |-> 1],
                           [speakerId |-> "", start |-> 1, end |-> 2]>>) =>
          metrics.scored = 1 /\ metrics.FA = 100000

C14_Witness ==
  /\ Done
  /\ collar = 0
  /\ refSegments = <<[speakerId |-> "A", start |-> 0, end |-> 1]>>
  /\ sysSegments = <<[speakerId |-> "B", start |-> 0, end |-> 1],
                     [speakerId |-> "", start |-> 1, end |-> 2]>>
  /\ metrics.FA = 100000
  /\ metrics.DER = 100000

\* The system list is the reference list with the speaker ids renamed by f.
Renamed(f) ==
  /\ Len(sysSegments) = Len(refSegments)
  /\ \A i \in DOMAIN refSegments :
        /\ sysSegments[i].speakerId = f[refSegments[i].speakerId]
        /\ sysSegments[i].start = refSegments[i].start
        /\ sysSegments[i].end = refSegments[i].end

IsInjectiveRenaming ==
  \E f \in [SpeakerIds -> SpeakerIds] :
     /\ \A a, b \in SpeakerIds : f[a] = f[b] => a = b
     /\ Renamed(f)

\* C15: when the system list is the reference list up to an injective renaming
\* of the speaker ids, MS = FA = SER = DER = 0 and no interval is SER.
C15_RenamedMatch ==
  (Done /\ IsInjectiveRenaming) =>
     /\ AllRatesZero
     /\ \A i \in DOMAIN intervals : intervals[i].type # "SER"

\* Away from the empty reference speaker id the renaming law holds.
RenamedMatchWithNonEmptyIds ==
  (Done /\ NoEmptyRefSpeakerId) => C15_RenamedMatch

\* The accumulated overlap of a pair, 0 when the table has no entry for it.
RECURSIVE SumSeq(_)
SumSeq(q) == IF q = <<>> THEN 0 ELSE Head(q) + SumSeq(Tail(q))

OverlapEntries(r, s) ==
  {<<i, j>> \in (DOMAIN overlapTotals) \X (1..Cardinality(SpeakerIds)) :
     /\ j \in DOMAIN overlapTotals[i].sysMap
     /\ overlapTotals[i].ref = r
     /\ overlapTotals[i].sysMap[j].sys = s}

CoActiveTime(r, s) ==
  SumSeq([i \in DOMAIN intervals |->
            IF r \in Range(intervals[i].ref) /\ s \in Range(intervals[i].sys)
            THEN intervals[i].end - intervals[i].start ELSE 0])

\* C20: for every pair (r, s) the accumulated overlap is the sum of the
\* durations of the atomic intervals whose reference set contains r and whose
\* system set contains s, each interval counted once.
C20_OverlapIsCoActiveTime ==
  Done =>
    \A r, s \in SpeakerIds :
       /\ Cardinality(OverlapEntries(r, s)) <= 1
       /\ \A e \in OverlapEntries(r, s) :
             overlapTotals[e[1]].sysMap[e[2]].duration = CoActiveTime(r, s)
       /\ OverlapEntries(r, s) = {} => CoActiveTime(r, s) = 0

C20_Witness ==
  /\ Done
  /\ Len(refSegments) = 2
  /\ refSegments[1].speakerId = refSegments[2].speakerId
  /\ \E i \in DOMAIN intervals :
        /\ intervals[i].sys # <<>>
        /\ \A k \in DOMAIN refSegments :
              /\ AdjStart(refSegments[k]) <= intervals[i].start
              /\ AdjEnd(refSegments[k]) > intervals[i].start
  /\ \E i \in DOMAIN overlapTotals :
        \E j \in DOMAIN overlapTotals[i].sysMap :
           overlapTotals[i].sysMap[j].duration >= 2
  /\ Len(intervals) >= 2

\* ---- the collar law ----

\* What a call returns: the intervals, their speaker sets as sets, and the metrics.
Returned(ivs, m) ==
  [intervals |-> [i \in DOMAIN ivs |->
                    [start |-> ivs[i].start, end |-> ivs[i].end, type |-> ivs[i].type,
                     ref |-> Range(ivs[i].ref), sys |-> Range(ivs[i].sys)]],
   metrics |-> m]

ResultOfSweep(st, classified) ==
  Returned(classified,
           [MS |-> Percent(errorTime(classified, "MS"), st.scoredSpeechTime),
            FA |-> Percent(errorTime(classified, "FA"), st.scoredSpeechTime),
            SER |-> Percent(errorTime(classified, "SER"), st.scoredSpeechTime),
            DER |-> DER_percent(Percent(errorTime(classified, "MS"), st.scoredSpeechTime),
                                Percent(errorTime(classified, "FA"), st.scoredSpeechTime),
                                Percent(errorTime(classified, "SER"), st.scoredSpeechTime)),
            scored |-> st.scoredSpeechTime])

ClassifiedOfSweep(st) ==
  ResultOfSweep(st, classifyAll(st.intervals, buildMapping(st.overlapTotals)))

\* The result of another call of computeDER, for comparison with the one made.
ResultOf(refSegs, sysSegs, c) == ClassifiedOfSweep(sweep(refSegs, sysSegs, c))

\* The same call on the lists padded beforehand, with no collar.
PaddedCall == ResultOf(applyCollar(refSegments, collar), applyCollar(sysSegments, collar), 0)

\* C13: a call with collar c > 0 returns the same intervals and metrics as the
\* call with collar 0 on the lists whose segments were padded by c beforehand.
C13_CollarIsPrePadding ==
  (Done /\ collar > 0) => Returned(intervals, metrics) = PaddedCall

\* What the two calls of C13 do agree on: the interval bounds, the speaker sets
\* of each interval, scored, MS and FA.
CollarAgreesUpToSpeakerError ==
  (Done /\ collar > 0) =>
     \E p \in {PaddedCall} :
        /\ Len(p.intervals) = Len(intervals)
        /\ \A i \in DOMAIN intervals :
              /\ p.intervals[i].start = intervals[i].start
              /\ p.intervals[i].end = intervals[i].end
              /\ p.intervals[i].ref = Range(intervals[i].ref)
              /\ p.intervals[i].sys = Range(intervals[i].sys)
        /\ p.metrics.scored = metrics.scored
        /\ p.metrics.MS = metrics.MS
        /\ p.metrics.FA = metrics.FA

\* =================== the RTTM utilities (src/src/utils.ts) ===================
\* A string is the sequence of its characters.  A time is a whole number of
\* thirds of a millisecond, so every time that is not a multiple of 0.001 s has
\* one nearest multiple.  toFixed(3) and parseFloat are modelled for decimal
\* numerals of at most three decimals, without exponent and without Infinity.
\* A JavaScript number is a record: NaN, or a time.
NaNValue == [nan |-> TRUE, v |-> 0]

Num(x) == [nan |-> FALSE, v |-> x]

WhiteSpace == {" ", "\t", "\r", "\n"}

DigitChars == <<"0", "1", "2", "3", "4", "5", "6", "7", "8", "9">>

IsDigit(c) == \E d \in 1..10 : DigitChars[d] = c

DigitValue(c) == (CHOOSE d \in 1..10 : DigitChars[d] = c) - 1

RECURSIVE DigitsOf(_)
DigitsOf(n) ==
  IF n < 10 THEN <<DigitChars[n + 1]>>
  ELSE DigitsOf(n \div 10) \o <<DigitChars[(n % 10) + 1]>>

RECURSIVE ValueOfDigits(_)
ValueOfDigits(ds) ==
  IF ds = <<>> THEN 0
  ELSE 10 * ValueOfDigits(SubSeq(ds, 1, Len(ds) - 1)) + DigitValue(ds[Len(ds)])

\* Number.prototype.toFixed(3): the nearest multiple of 0.001, written with
\* three decimals.
toFixed3(x) ==
  LET ms == ((IF x < 0 THEN -x ELSE x) + 1) \div 3
      frac == ms % 1000
  IN (IF x < 0 THEN <<"-">> ELSE <<>>)
     \o DigitsOf(ms \div 1000) \o <<".">>
     \o <<DigitChars[(frac \div 100) + 1], DigitChars[((frac \div 10) % 10) + 1],
          DigitChars[(frac % 10) + 1]>>

\* The number of digits a string starts with.
LeadingDigits(str) ==
  Cardinality({i \in DOMAIN str : \A j \in 1..i : IsDigit(str[j])})

\* The thousandths the decimals after the point stand for.
Thousandths(ds) ==
  ValueOfDigits(SubSeq(ds \o <<"0", "0", "0">>, 1, 3))

\* parseFloat: the longest prefix that is a decimal numeral, NaN when there is none.
parseFloat(str) ==
  LET signed == str # <<>> /\ str[1] \in {"-", "+"}
      body == IF signed THEN Tail(str) ELSE str
      intLen == LeadingDigits(body)
      afterInt == SubSeq(body, intLen + 1, Len(body))
      decimals == IF afterInt # <<>> /\ afterInt[1] = "." THEN Tail(afterInt) ELSE <<>>
      fracLen == LeadingDigits(decimals)
      magnitude == 3 * (1000 * ValueOfDigits(SubSeq(body, 1, intLen))
                        + Thousandths(SubSeq(decimals, 1, fracLen)))
  IN IF intLen = 0 /\ fracLen = 0 THEN NaNValue
     ELSE Num(IF signed /\ str[1] = "-" THEN -magnitude ELSE magnitude)

\* The literals of the two functions.
SPEAKER == <<"S", "P", "E", "A", "K", "E", "R">>

NA == <<"<", "N", "A", ">">>

unknown == <<"u", "n", "k", "n", "o", "w", "n">>

undefined == <<"u", "n", "d", "e", "f", "i", "n", "e", "d">>

\* The minimum emitted duration, Math.max(0.01, ...): 0.01 s in thirds of a millisecond.
MinEmittedDuration == 30

\* One line of segmentsToRTTM's template literal.
rttmLine(seg, fileId) ==
  SPEAKER \o <<" ">> \o fileId \o <<" ", "1", " ">>
    \o toFixed3(seg.start) \o <<" ">>
    \o toFixed3(Max(MinEmittedDuration, seg.end - seg.start)) \o <<" ">>
    \o NA \o <<" ">> \o NA \o <<" ">> \o seg.speakerId \o <<" ">> \o NA

\* Array.prototype.join('\n').
RECURSIVE joinLines(_)
joinLines(ls) ==
  IF ls = <<>> THEN <<>>
  ELSE IF Len(ls) = 1 THEN ls[1]
  ELSE ls[1] \o <<"\n">> \o joinLines(Tail(ls))

segmentsToRTTM(segs, fileId) ==
  LET sorted == SortByStart(segs)
  IN joinLines([i \in DOMAIN sorted |-> rttmLine(sorted[i], fileId)]) \o <<"\n">>

\* String.prototype.split(/\r?\n/).
RECURSIVE splitLines(_)
splitLines(text) ==
  LET breaks == {i \in DOMAIN text : text[i] = "\n"}
  IN IF breaks = {} THEN <<text>>
     ELSE LET k == MinOf(breaks)
              lineEnd == IF k > 1 /\ text[k - 1] = "\r" THEN k - 2 ELSE k - 1
          IN <<SubSeq(text, 1, lineEnd)>> \o splitLines(SubSeq(text, k + 1, Len(text)))

\* String.prototype.trim.
trim(str) ==
  LET black == {i \in DOMAIN str : str[i] \notin WhiteSpace}
  IN IF black = {} THEN <<>> ELSE SubSeq(str, MinOf(black), MaxOf(black))

\* String.prototype.split(/\s+/).
RECURSIVE splitWhiteSpace(_)
splitWhiteSpace(str) ==
  LET white == {i \in DOMAIN str : str[i] \in WhiteSpace}
  IN IF white = {} THEN <<str>>
     ELSE LET k == MinOf(white)
              black == {i \in k..Len(str) : str[i] \notin WhiteSpace}
              next == IF black = {} THEN Len(str) + 1 ELSE MinOf(black)
          IN <<SubSeq(str, 1, k - 1)>> \o splitWhiteSpace(SubSeq(str, next, Len(str)))

\* fields[i] (0-based), as parseFloat reads it: a missing field is undefined,
\* which parseFloat turns into the string "undefined".
fieldText(fields, i) == IF i + 1 <= Len(fields) THEN fields[i + 1] ELSE undefined

\* fields[7] || 'unknown'.
speakerIdOf(fields) ==
  IF 8 <= Len(fields) /\ fields[8] # <<>> THEN fields[8] ELSE unknown

\* Mutant: zero durations are accepted, duration >= 0.
acceptsDuration0(duration) == duration.v >= 0

acceptsDuration(duration) == duration.v > 0

\* The body of the parser's loop for one line: the segments it pushes.
parseLine(line) ==
  LET trimmed == trim(line)
      fields == splitWhiteSpace(trimmed)
      start == parseFloat(fieldText(fields, 3))
      duration == parseFloat(fieldText(fields, 4))
      speakerId == speakerIdOf(fields)
      end == start.v + duration.v
  IN IF trimmed = <<>> \/ trimmed[1] = ";" THEN <<>>
     ELSE IF fields[1] # SPEAKER THEN <<>>
     ELSE IF ~start.nan /\ ~duration.nan /\ acceptsDuration(duration)
          THEN <<[id |-> speakerId \o <<"_">> \o toFixed3(start.v) \o <<"_">> \o toFixed3(end),
                  speakerId |-> speakerId, start |-> start.v, end |-> end]>>
          ELSE <<>>

RECURSIVE parseLines(_)
parseLines(ls) ==
  IF ls = <<>> THEN <<>> ELSE parseLine(Head(ls)) \o parseLines(Tail(ls))

parseRTTMToSegments(text) == SortByStart(parseLines(splitLines(text)))

\* ---- the calls of the RTTM utilities ----
\* No call of computeDER is in progress.
DerIdle ==
  /\ refSegments = <<>>
  /\ sysSegments = <<>>
  /\ collar = 0
  /\ pc = "idle"
  /\ intervals = <<>>
  /\ overlapTotals = <<>>
  /\ scoredSpeechTime = 0
  /\ sysToRefMapping = [k \in {} |-> ""]
  /\ missedSpeechTime = 0
  /\ falseAlarmTime = 0
  /\ speakerErrorTime = 0
  /\ metrics = NoMetrics

\* Bounds of the segment lists given to segmentsToRTTM (thirds of a millisecond).
RttmMaxStart == 3
RttmMaxDuration == 32
RttmMaxLen == 2

\* Speaker ids are arbitrary strings: the empty one, a word, two words.
RttmSpeakerIds == {<<>>, <<"A">>, <<"A", " ", "B">>}

\* Segments of positive duration.
RttmSegment ==
  {[speakerId |-> s, start |-> a, end |-> a + d] :
     s \in RttmSpeakerIds, a \in 0..RttmMaxStart, d \in 1..RttmMaxDuration}

RttmSegmentLists == UNION {[1..n -> RttmSegment] : n \in 0..RttmMaxLen}

\* segmentsToRTTM(inputSegments), with the default fileId.
callSegmentsToRTTM ==
  /\ rttmPc = "serialize"
  /\ rttmText' = segmentsToRTTM(inputSegments, unknown)
  /\ rttmPc' = "parse"
  /\ UNCHANGED <<inputSegments, lines, parsedSegments>>
  /\ UNCHANGED <<derVars, editVars>>

\* parseRTTMToSegments(rttmText).
callParseRTTMToSegments ==
  /\ rttmPc = "parse"
  /\ parsedSegments' = parseRTTMToSegments(rttmText)
  /\ rttmPc' = "done"
  /\ UNCHANGED <<inputSegments, lines, rttmText>>
  /\ UNCHANGED <<derVars, editVars>>

\* The round trip parseRTTMToSegments(segmentsToRTTM(inputSegments)).
RoundTripInit ==
  /\ inputSegments \in RttmSegmentLists
  /\ lines = <<>>
  /\ rttmText = <<>>
  /\ parsedSegments = <<>>
  /\ rttmPc = "serialize"
  /\ DerIdle
  /\ EditIdle

RoundTripNext == callSegmentsToRTTM \/ callParseRTTMToSegments

SpecRoundTrip == RoundTripInit /\ [][RoundTripNext]_vars

\* ---- texts for the parser ----
\* A text is put together from lines; a line is described by its first token,
\* the number of its fields, and the tokens in the start and duration fields.
\* Each numeral comes with the number it denotes (1 s = 3000), or NaN.
MaxLines == 2

speakerLower == <<"s", "p", "e", "a", "k", "e", "r">>

Heads == {SPEAKER, speakerLower, <<";">> \o SPEAKER}

StartTokens ==
  {[text |-> <<"0", ".", "5">>, value |-> Num(1500)],
   [text |-> <<"2">>, value |-> Num(6000)],
   [text |-> <<"x">>, value |-> NaNValue]}

\* parseFloat reads the numeral a token starts with: "1.5s" is 1.5.
DurationTokens ==
  {[text |-> <<"1">>, value |-> Num(3000)],
   [text |-> <<"0">>, value |-> Num(0)],
   [text |-> <<"-", "1">>, value |-> Num(-3000)],
   [text |-> <<"x">>, value |-> NaNValue],
   [text |-> <<"1", ".", "5", "s">>, value |-> Num(4500)]}

FieldCounts == {0, 1, 4, 5, 9}

Layouts ==
  [indent : {<<>>, <<" ">>}, separator : {<<" ">>, <<"\t", " ">>},
   eol : {<<"\n">>, <<"\r", "\n">>}]

LineInputs(layout) ==
  {[head |-> h, fieldCount |-> n, start |-> s, duration |-> d, layout |-> layout] :
     h \in Heads, n \in FieldCounts, s \in StartTokens, d \in DurationTokens}

\* The fields of a line, in the shape
\* SPEAKER <file-id> <channel> <start> <duration> <NA> <NA> <speaker-id> <NA>.
FieldsOfLine(l) ==
  SubSeq(<<l.head, <<"f">>, <<"1">>, l.start.text, l.duration.text, NA, NA, <<"A">>, NA>>,
         1, l.fieldCount)

RECURSIVE joinWith(_, _)
joinWith(fs, sep) ==
  IF fs = <<>> THEN <<>>
  ELSE IF Len(fs) = 1 THEN fs[1]
  ELSE fs[1] \o sep \o joinWith(Tail(fs), sep)

TextOfLine(l) ==
  l.layout.indent \o joinWith(FieldsOfLine(l), l.layout.separator) \o l.layout.eol

RECURSIVE TextOfLines(_)
TextOfLines(ls) ==
  IF ls = <<>> THEN <<>> ELSE TextOfLine(Head(ls)) \o TextOfLines(Tail(ls))

ParseInit ==
  /\ \E layout \in Layouts :
        lines \in UNION {[1..n -> LineInputs(layout)] : n \in 0..MaxLines}
  /\ rttmText = TextOfLines(lines)
  /\ inputSegments = <<>>
  /\ parsedSegments = <<>>
  /\ rttmPc = "parse"
  /\ DerIdle
  /\ EditIdle

ParseNext == callParseRTTMToSegments

SpecParse == ParseInit /\ [][ParseNext]_vars

\* ---- the round trip ----
RttmDone == rttmPc = "done"

\* Two times are the same up to 3-decimal precision: less than 0.001 s apart.
Near(a, b) == a - b < 3 /\ b - a < 3

\* The end a segment is written with: its own, or start + 0.01 s when it is shorter.
EmittedEnd(seg) == seg.start + Max(MinEmittedDuration, seg.end - seg.start)

SameTriple(out, seg) ==
  /\ out.speakerId = seg.speakerId
  /\ Near(out.start, seg.start)
  /\ Near(out.end, EmittedEnd(seg))

RoundTrips ==
  LET sorted == SortByStart(inputSegments)
  IN /\ Len(parsedSegments) = Len(sorted)
     /\ \A i \in DOMAIN sorted : SameTriple(parsedSegments[i], sorted[i])
     /\ \A i, j \in DOMAIN parsedSegments :
           i < j => parsedSegments[i].start <= parsedSegments[j].start

\* C16: parsing the text written for a list of segments of positive duration
\* gives back as many segments with the same speaker id, start and end, in
\* ascending start order, up to 3 decimals and with durations below 0.01 s
\* raised to 0.01 s.
C16_RoundTrip == RttmDone /\ lines = <<>> => RoundTrips

\* A speaker id that is one field of a line: not empty and without white space.
IsToken(str) == str # <<>> /\ \A i \in DOMAIN str : str[i] \notin WhiteSpace

\* The round trip does hold for the lists whose speaker ids are tokens.
RoundTripWithTokenIds ==
  (RttmDone /\ lines = <<>> /\ \A i \in DOMAIN inputSegments : IsToken(inputSegments[i].speakerId))
    => RoundTrips

\* ---- the parser ----
\* What the contract says of a described line: it is emitted iff its first token
\* is SPEAKER and both its start and duration fields are there, are numbers and
\* the duration is positive.
Emits(l) ==
  /\ l.head = SPEAKER
  /\ l.fieldCount >= 5
  /\ ~l.start.value.nan
  /\ ~l.duration.value.nan
  /\ l.duration.value.v > 0

Triple(seg) == <<seg.speakerId, seg.start, seg.end>>

ExpectedTriple(l) ==
  <<IF l.fieldCount >= 8 THEN <<"A">> ELSE unknown,
    l.start.value.v, l.start.value.v + l.duration.value.v>>

\* C17: the parser emits one segment for each line whose first token is SPEAKER
\* and whose start and duration fields are numbers with duration > 0, with
\* end = start + duration; every other line leaves the output unaffected; the
\* output is sorted ascending by start.
C17_ParserContract ==
  (RttmDone /\ inputSegments = <<>>) =>
     LET emitting == SelectSeq(lines, Emits)
     IN /\ Len(parsedSegments) = Len(emitting)
        /\ \E p \in [DOMAIN emitting -> DOMAIN emitting] :
              /\ \A i, j \in DOMAIN emitting : i # j => p[i] # p[j]
              /\ \A i \in DOMAIN emitting :
                    Triple(parsedSegments[i]) = ExpectedTriple(emitting[p[i]])
        /\ \A i, j \in DOMAIN parsedSegments :
              i < j => parsedSegments[i].start <= parsedSegments[j].start

\* A SPEAKER line with duration 0 next to an emitted line that starts later than
\* it: only the emitted one is in the output.
C17_Witness ==
  /\ RttmDone
  /\ Len(lines) = 2
  /\ Emits(lines[2])
  /\ lines[1].head = SPEAKER
  /\ lines[1].fieldCount = 9
  /\ ~lines[1].start.value.nan
  /\ lines[1].duration.value = Num(0)
  /\ Len(parsedSegments) = 1
  /\ parsedSegments[1].end = parsedSegments[1].start + lines[2].duration.value.v

\* =================== the editor (src/unnamed/part_000, App) ===================
\* The App's state: the reference track is refSegments, the system track (the
\* state named segments in App) is sysSegments, as they are passed to
\* computeDER(refSegments, segments).  Here a segment carries its id, and a time
\* is a whole number of hundredths of a second.  A state that is null or a value
\* is the empty sequence or a sequence of one value.  A handler runs to its end
\* and React has rendered before the next one starts, so the closures and
\* segmentsRef of a handler hold the current state; a drag is taken one pointer
\* move at a time.  The ghost segment lets pointer events through to the track.
MIN_DUR == 1

\* dur = 0.2 of the ghost segment and atTime + 0.2 of createSegmentAt.
GhostDur == 20

CreateDur == 20

Min(a, b) == IF a <= b THEN a ELSE b

\* duration || x.
DurationOr(x) == IF mediaDuration # 0 THEN mediaDuration ELSE x

\* The segments of one speaker's track, filter(...).sort(...).
trackOf(segs, speakerId) ==
  SortByStart(SelectSeq(segs, LAMBDA s : s.speakerId = speakerId))

getSpeakerNeighborBounds(segs, speakerId, segId) ==
  LET list == trackOf(segs, speakerId)
      found == {i \in DOMAIN list : list[i].id = segId}
      i == MinOf(found)
  IN [prevEnd |-> IF found # {} /\ i > 1 THEN list[i - 1].end ELSE 0,
      nextStart |-> IF found # {} /\ i < Len(list) THEN list[i + 1].start
                    ELSE DurationOr(Infinity)]

\* Mutant: the end is not kept at least MIN_DUR after the start.
clampEndLoose(clampedStart, nextEnd, ns) == Min(nextEnd, ns)

clampEnd(clampedStart, nextEnd, ns) == Max(clampedStart + MIN_DUR, Min(nextEnd, ns))

updateSegmentTime(prev, segId, nextStart, nextEnd) ==
  LET found == {i \in DOMAIN prev : prev[i].id = segId}
      target == prev[MinOf(found)]
      b == getSpeakerNeighborBounds(prev, target.speakerId, segId)
      clampedStart == Max(b.prevEnd, Min(nextStart, b.nextStart - MIN_DUR))
      clampedEnd == clampEnd(clampedStart, nextEnd, b.nextStart)
  IN IF found = {} THEN prev
     ELSE [i \in DOMAIN prev |->
             IF prev[i].id = segId
             THEN [prev[i] EXCEPT !.start = clampedStart, !.end = clampedEnd]
             ELSE prev[i]]

\* The loop of createSegmentAt over the speaker's track: the bounds after it.
RECURSIVE createBounds(_, _, _)
createBounds(list, atTime, b) ==
  IF list = <<>> THEN b
  ELSE LET s == Head(list)
           leftBound == IF s.end <= atTime THEN Max(b.leftBound, s.end) ELSE b.leftBound
           rightBound == IF s.start >= atTime /\ b.rightBound = DurationOr(Infinity)
                         THEN s.start ELSE b.rightBound
       IN createBounds(Tail(list), atTime, [leftBound |-> leftBound, rightBound |-> rightBound])

createSegmentAt(prev, id, speakerId, atTime) ==
  LET baseEnd == Min(DurationOr(atTime + 100), atTime + CreateDur)
      b == createBounds(trackOf(prev, speakerId), atTime,
                        [leftBound |-> 0, rightBound |-> DurationOr(Infinity)])
      start == Max(b.leftBound, Min(atTime, b.rightBound - MIN_DUR))
      end == Max(start + MIN_DUR, Min(baseEnd, b.rightBound))
  IN SortByStart(Append(prev, [id |-> id, speakerId |-> speakerId,
                               start |-> start, end |-> end]))

\* ---- bounds of the editor model ----
MediaDuration == 20
GridStep == 10
MouseStep == 10
MaxTrackLen == 2
MaxSegments == 2
MaxSpeakers == 2
MaxTimers == 2
MaxEvents == 4

EditSpeakerIds == {"A", "B"}

\* `speaker${idx}` of the add button.
speakerName(idx) == <<"speaker1", "speaker2", "speaker3", "speaker4">>[idx]

\* The times of the segments of a loaded file.
GridTimes == {t \in 0..MediaDuration : t % GridStep = 0}

\* toTimeFromClientX: a time between 0 and the media duration.
MouseTimes == {t \in 0..mediaDuration : t % MouseStep = 0}

\* A segment as the App's parseRTTM makes it: its id is `${spk}_${start}_${end}`.
parsedSegment(spk, a, b) ==
  [id |-> <<spk, a, b>>, speakerId |-> spk, start |-> a, end |-> b]

\* crypto.randomUUID(): an id no segment has, the n-th of them.
uuid(n) == <<"uuid", n, 0>>

freshId(known) == uuid(MinOf({n \in 1..(Cardinality(known) + 1) : uuid(n) \notin known}))

NoOverlapPerSpeaker(segs) ==
  \A i, j \in DOMAIN segs :
     (i # j /\ segs[i].speakerId = segs[j].speakerId) =>
        (segs[i].end <= segs[j].start \/ segs[j].end <= segs[i].start)

MinDurationKept(segs) == \A i \in DOMAIN segs : segs[i].end - segs[i].start >= MIN_DUR

\* The tracks a file can hold: sorted by start, as parseRTTM returns them, no two
\* segments of a speaker overlapping, every segment at least MIN_DUR long.
Tracks ==
  {tr \in UNION {[1..n -> {parsedSegment(spk, a, b) :
                             spk \in EditSpeakerIds, a \in GridTimes, b \in GridTimes}] :
                 n \in 0..MaxTrackLen} :
     /\ \A i \in DOMAIN tr : i > 1 => tr[i - 1].start <= tr[i].start
     /\ NoOverlapPerSpeaker(tr)
     /\ MinDurationKept(tr)}

\* The tracks of the files loaded later: nothing, or one segment of speaker A
\* from time 0.
RefTracks ==
  {tr \in Tracks : Len(tr) <= 1 /\ \A i \in DOMAIN tr : tr[i].start = 0 /\ tr[i].speakerId = "A"}

RttmFiles == [nameHasRef : BOOLEAN, segments : RefTracks]

EditInit ==
  /\ mediaDuration \in {0, MediaDuration}
  /\ sysSegments \in Tracks
  /\ speakers = getSpeakerSet(sysSegments)
  /\ rttm = TRUE
  /\ refRTTM \in {<<>>} \cup {<<file>> : file \in RttmFiles}
  /\ refSegments = (IF refRTTM = <<>> THEN <<>> ELSE refRTTM[1].segments)
  /\ ghostSeg = <<>>
  /\ lastDeletedRef = <<>>
  /\ toast = FALSE
  /\ timers = 0
  /\ events = 0
  /\ collar = 0
  /\ pc = "idle"
  /\ intervals = <<>>
  /\ overlapTotals = <<>>
  /\ scoredSpeechTime = 0
  /\ sysToRefMapping = [k \in {} |-> ""]
  /\ missedSpeechTime = 0
  /\ falseAlarmTime = 0
  /\ speakerErrorTime = 0
  /\ metrics = NoMetrics
  /\ RttmIdle

\* One more event is handled; what no handler of the editor writes.
editFrame ==
  /\ events < MaxEvents
  /\ events' = events + 1
  /\ UNCHANGED <<collar, pc, intervals, overlapTotals, scoredSpeechTime, sysToRefMapping,
                 missedSpeechTime, falseAlarmTime, speakerErrorTime, metrics,
                 mediaDuration, rttmVars>>

\* The pointer is over a segment of the speaker's track (closest('.seg')).
overSegment(speakerId, t) ==
  \E i \in DOMAIN sysSegments :
     /\ sysSegments[i].speakerId = speakerId
     /\ sysSegments[i].start <= t
     /\ t < sysSegments[i].end

\* The track's onMouseMove: the ghost segment follows the pointer.
onMouseMove ==
  \E k \in DOMAIN speakers, t \in MouseTimes :
     /\ ~overSegment(speakers[k], t)
     /\ LET start == Max(0, Min(mediaDuration - GhostDur, t - (GhostDur \div 2)))
            end == Min(DurationOr(start + GhostDur), start + GhostDur)
        IN ghostSeg' = <<[speakerId |-> speakers[k], start |-> start, end |-> end]>>
     /\ UNCHANGED <<refSegments, sysSegments, speakers, lastDeletedRef, toast, timers,
                    rttm, refRTTM>>
     /\ editFrame

onMouseLeave ==
  /\ ghostSeg # <<>>
  /\ ghostSeg' = <<>>
  /\ UNCHANGED <<refSegments, sysSegments, speakers, lastDeletedRef, toast, timers,
                 rttm, refRTTM>>
  /\ editFrame

\* The ids a new id differs from.
knownIds == {sysSegments[i].id : i \in DOMAIN sysSegments}
            \cup {lastDeletedRef[i].id : i \in DOMAIN lastDeletedRef}

\* The track's onClick: createSegmentAt at the ghost's start, or at the pointer.
onClick ==
  \E k \in DOMAIN speakers, t \in MouseTimes :
     /\ ~overSegment(speakers[k], t)
     /\ Len(sysSegments) < MaxSegments
     /\ LET atTime == IF ghostSeg # <<>> /\ ghostSeg[1].speakerId = speakers[k]
                      THEN ghostSeg[1].start ELSE t
        IN sysSegments' = createSegmentAt(sysSegments, freshId(knownIds), speakers[k], atTime)
     /\ UNCHANGED <<refSegments, speakers, ghostSeg, lastDeletedRef, toast, timers,
                    rttm, refRTTM>>
     /\ editFrame

\* The segments drawn on the tracks: those of the speakers of the legend.
drawn == {i \in DOMAIN sysSegments : sysSegments[i].speakerId \in Range(speakers)}

\* A pointer move on the left handle of a segment.
dragStartEdge ==
  \E i \in drawn, t \in MouseTimes :
     /\ sysSegments' = updateSegmentTime(sysSegments, sysSegments[i].id,
                                         Min(t, sysSegments[i].end - MIN_DUR),
                                         sysSegments[i].end)
     /\ UNCHANGED <<refSegments, speakers, ghostSeg, lastDeletedRef, toast, timers,
                    rttm, refRTTM>>
     /\ editFrame

\* A pointer move on the right handle of a segment.
dragEndEdge ==
  \E i \in drawn, t \in MouseTimes :
     /\ sysSegments' = updateSegmentTime(sysSegments, sysSegments[i].id,
                                         sysSegments[i].start,
                                         Max(t, sysSegments[i].start + MIN_DUR))
     /\ UNCHANGED <<refSegments, speakers, ghostSeg, lastDeletedRef, toast, timers,
                    rttm, refRTTM>>
     /\ editFrame

\* removeTimeSegment(segId), from the confirmation dialog.
removeTimeSegment ==
  \E i \in DOMAIN sysSegments :
     /\ timers < MaxTimers
     /\ lastDeletedRef' = <<sysSegments[MinOf({j \in DOMAIN sysSegments :
                                                  sysSegments[j].id = sysSegments[i].id})]>>
     /\ sysSegments' = SelectSeq(sysSegments, LAMBDA s : s.id # sysSegments[i].id)
     /\ toast' = TRUE
     /\ timers' = timers + 1
     /\ UNCHANGED <<refSegments, speakers, ghostSeg, rttm, refRTTM>>
     /\ editFrame

\* The toast's button: the undo closure of removeTimeSegment.
undo ==
  /\ toast
  /\ IF lastDeletedRef = <<>>
     THEN UNCHANGED <<sysSegments, lastDeletedRef, toast>>
     ELSE /\ sysSegments' = SortByStart(Append(sysSegments, lastDeletedRef[1]))
          /\ lastDeletedRef' = <<>>
          /\ toast' = FALSE
  /\ UNCHANGED <<refSegments, speakers, ghostSeg, timers, rttm, refRTTM>>
  /\ editFrame

\* A 5-second timer of removeTimeSegment fires.
toastTimeout ==
  /\ timers > 0
  /\ timers' = timers - 1
  /\ toast' = FALSE
  /\ UNCHANGED <<refSegments, sysSegments, speakers, ghostSeg, lastDeletedRef,
                 rttm, refRTTM>>
  /\ editFrame

\* The add button of the speaker legend.
addSpeaker ==
  /\ Len(speakers) < MaxSpeakers
  /\ speakers' = Append(speakers, speakerName(Len(speakers) + 1))
  /\ UNCHANGED <<refSegments, sysSegments, ghostSeg, lastDeletedRef, toast, timers,
                 rttm, refRTTM>>
  /\ editFrame

\* The delete button of a speaker of the legend.
deleteSpeaker ==
  \E k \in DOMAIN speakers :
     /\ speakers' = SelectSeq(speakers, LAMBDA s : s # speakers[k])
     /\ sysSegments' = SelectSeq(sysSegments, LAMBDA seg : seg.speakerId # speakers[k])
     /\ UNCHANGED <<refSegments, ghostSeg, lastDeletedRef, toast, timers, rttm, refRTTM>>
     /\ editFrame

\* handleFiles' test of where an RTTM file goes.  The handler of a drop on the
\* page was made on the first render, when no file was loaded.
isRefTarget(target, nameHasRef, rttmLoaded, refLoaded) ==
  target = "ref" \/ nameHasRef \/ (rttmLoaded /\ ~refLoaded)

\* Mutant: setRefSegments is called for every file.
refAfterLoadAlways(isRef, parsed) == parsed

refAfterLoad(isRef, parsed) == IF isRef THEN parsed ELSE refSegments

\* handleFiles for one .rttm file, when its text has been read.
handleFiles ==
  \E file \in RttmFiles, target \in {"sys", "ref", "none"}, firstRender \in BOOLEAN :
     /\ firstRender => target = "none"
     /\ \E isRef \in {isRefTarget(target, file.nameHasRef,
                                  IF firstRender THEN FALSE ELSE rttm,
                                  IF firstRender THEN FALSE ELSE refRTTM # <<>>)} :
           /\ refSegments' = refAfterLoad(isRef, file.segments)
           /\ refRTTM' = (IF isRef THEN <<file>> ELSE refRTTM)
           /\ sysSegments' = IF isRef THEN sysSegments ELSE file.segments
           /\ speakers' = IF isRef THEN speakers ELSE getSpeakerSet(file.segments)
           /\ rttm' = (~isRef \/ rttm)
     /\ UNCHANGED <<ghostSeg, lastDeletedRef, toast, timers>>
     /\ editFrame

\* The editing operations of the system track.
EditStep ==
  \/ onMouseMove
  \/ onMouseLeave
  \/ onClick
  \/ dragStartEdge
  \/ dragEndEdge
  \/ removeTimeSegment
  \/ undo
  \/ toastTimeout
  \/ addSpeaker
  \/ deleteSpeaker

EditNext == EditStep \/ handleFiles

SpecEdit == EditInit /\ [][EditNext]_vars

\* ---- the editor's claims ----
\* C18: from a system track where no two segments of a speaker overlap and
\* every segment lasts at least MIN_DUR, every sequence of editing operations
\* leaves a track where no two segments of a speaker overlap and every segment
\* lasts at least MIN_DUR.
C18_EditingKeepsTrackSafe ==
  NoOverlapPerSpeaker(sysSegments) /\ MinDurationKept(sysSegments)

\* C19: no editing operation (create, drag an edge, delete, undo, add or delete
\* a speaker) changes the reference segment list; only loading a reference RTTM
\* file replaces it: the list is always that of the reference file loaded last.
C19_ReferenceLocked ==
  refSegments = (IF refRTTM = <<>> THEN <<>> ELSE refRTTM[1].segments)

\* A reference track is loaded, and the system track has been edited: it holds
\* a created segment, a segment was deleted, and a speaker was added.
C19_Witness ==
  /\ refSegments # <<>>
  /\ \E i \in DOMAIN sysSegments : sysSegments[i].id = uuid(1)
  /\ lastDeletedRef # <<>>
  /\ \E k \in DOMAIN speakers : speakers[k] \notin EditSpeakerIds

\* ======================= computeDER on turn-taking lists =======================
\* A second family of arguments for computeDER: each list is a conversation of
\* back-to-back turns from time 0, longer than the lists of Init, so that a
\* speaker can fall silent and speak again.
TurnMaxLen == 3
TurnMaxDur == 2

TurnSpeakerIds == {"A", "B"}

Turns ==
  UNION {[1..n -> [speakerId : TurnSpeakerIds, dur : 1..TurnMaxDur]] :
           n \in 0..TurnMaxLen}

RECURSIVE TurnStart(_, _)
TurnStart(turns, i) ==
  IF i = 1 THEN 0 ELSE TurnStart(turns, i - 1) + turns[i - 1].dur

SegmentsOfTurns(turns) ==
  [i \in DOMAIN turns |->
     [speakerId |-> turns[i].speakerId,
      start |-> TurnStart(turns, i),
      end |-> TurnStart(turns, i) + turns[i].dur]]

TurnsInit ==
  /\ \E r \in Turns : refSegments = SegmentsOfTurns(r)
  /\ \E s \in Turns : sysSegments = SegmentsOfTurns(s)
  /\ collar \in 0..MaxCollar
  /\ pc = "call"
  /\ intervals = <<>>
  /\ overlapTotals = <<>>
  /\ scoredSpeechTime = 0
  /\ sysToRefMapping = [k \in {} |-> ""]
  /\ missedSpeechTime = 0
  /\ falseAlarmTime = 0
  /\ speakerErrorTime = 0
  /\ metrics = NoMetrics
  /\ RttmIdle
  /\ EditIdle

SpecTurns == TurnsInit /\ [][Next]_vars

\* ---- the greedy scan ----
\* The pairs of the overlap table in the table's iteration order: the reference
\* speakers in the order their rows were created, the system speakers of a row
\* in the order they were added to it.
TablePairs == mappingPairs(overlapTotals)

\* The same pairs in the order in which each pair was first accumulated: the
\* returned intervals are taken in time order, and in an interval with both
\* kinds of speech the pairs in the order of the two nested loops.
RECURSIVE PairsOfInterval(_, _, _, _, _)
PairsOfInterval(seen, refSpeakers, sysSpeakers, i, j) ==
  IF i > Len(refSpeakers) THEN seen
  ELSE IF j > Len(sysSpeakers)
       THEN PairsOfInterval(seen, refSpeakers, sysSpeakers, i + 1, 1)
       ELSE LET p == <<refSpeakers[i], sysSpeakers[j]>>
            IN PairsOfInterval(IF p \in Range(seen) THEN seen ELSE Append(seen, p),
                               refSpeakers, sysSpeakers, i, j + 1)

RECURSIVE PairsFirstAccumulated(_, _)
PairsFirstAccumulated(seen, ivs) ==
  IF ivs = <<>> THEN seen
  ELSE PairsFirstAccumulated(
         PairsOfInterval(seen, Head(ivs).ref, Head(ivs).sys, 1, 1), Tail(ivs))

AccumulationRank(p) ==
  CHOOSE k \in DOMAIN PairsFirstAccumulated(<<>>, intervals) :
     PairsFirstAccumulated(<<>>, intervals)[k] = <<p.ref, p.sys>>

TableRank(p) == CHOOSE k \in DOMAIN TablePairs : TablePairs[k] = p

Committed(p) ==
  p.sys \in DOMAIN sysToRefMapping /\ sysToRefMapping[p.sys] = p.ref

Conflict(p, q) == p.ref = q.ref \/ p.sys = q.sys

\* q is visited before p: greater overlap, or equal overlap and earlier rank.
VisitedBefore(q, p, rankQ, rankP) ==
  q.duration > p.duration \/ (q.duration = p.duration /\ rankQ < rankP)

PositivePairs == {p \in Range(TablePairs) : p.duration > 0}

\* What the scan guarantees whatever the order among ties.
ScanOutcome ==
  /\ \A p \in PositivePairs :
        ~Committed(p) =>
           \E q \in PositivePairs :
              q # p /\ Committed(q) /\ Conflict(q, p) /\ q.duration >= p.duration
  /\ \A s \in DOMAIN sysToRefMapping :
        \E p \in PositivePairs : p.sys = s /\ p.ref = sysToRefMapping[s]
  /\ \A i \in DOMAIN intervals : \A j \in DOMAIN intervals[i].sys :
        (~\E p \in PositivePairs : p.sys = intervals[i].sys[j]) =>
           intervals[i].sys[j] \notin DOMAIN sysToRefMapping

\* C21 as stated: the pairs with positive overlap are visited in descending
\* order of overlap, ties in the order in which the pairs were first accumulated,
\* and a pair is committed iff no pair visited before it and committed shares a
\* speaker with it; an uncommitted positive pair lost a speaker to a committed
\* pair of at least its overlap, committed pairs have positive overlap, speakers
\* without positive overlap are unmapped.
C21_GreedyInAccumulationOrder ==
  Done =>
    /\ \A p \in PositivePairs :
          Committed(p) <=>
             ~\E q \in PositivePairs :
                 /\ Committed(q)
                 /\ Conflict(q, p)
                 /\ VisitedBefore(q, p, AccumulationRank(q), AccumulationRank(p))
    /\ ScanOutcome

\* C21 amended: as above, with ties in the iteration order of the overlap table
\* (reference speakers in the order of their first accumulated overlap, and for
\* one reference speaker its system speakers in the order of their first
\* overlap with that speaker).
C21_GreedyInTableOrder ==
  Done =>
    /\ \A p \in PositivePairs :
          Committed(p) <=>
             ~\E q \in PositivePairs :
                 /\ Committed(q)
                 /\ Conflict(q, p)
                 /\ VisitedBefore(q, p, TableRank(q), TableRank(p))
    /\ ScanOutcome

\* Two tied pairs that share a system speaker, the one accumulated later standing
\* earlier in the table, and the scan committed the one earlier in the table.
C21_Witness ==
  /\ Done
  /\ \E p, q \in PositivePairs :
        /\ p.duration = q.duration
        /\ p.sys = q.sys /\ p.ref # q.ref
        /\ TableRank(p) < TableRank(q)
        /\ AccumulationRank(q) < AccumulationRank(p)
        /\ Committed(p)
        /\ ~Committed(q)

\* ---- the arguments after the call ----
IsSortedByStart(segs) ==
  \A i \in 1..(Len(segs) - 1) : segs[i].start <= segs[i + 1].start

NonFiniteMaxT == 1
NonFiniteMaxRefLen == 2
NonFiniteMaxSysLen == 1

NumberTimes == (0..NonFiniteMaxT) \cup {NaN, Infinity, -Infinity}

NumberSegment ==
  {s \in [speakerId : TurnSpeakerIds, start : NumberTimes, end : NumberTimes] :
     (IsFiniteNumber(s.start) /\ IsFiniteNumber(s.end)) => s.start <= s.end}

NumberSegmentLists(maxLen) == UNION {[1..n -> NumberSegment] : n \in 0..maxLen}

NonFiniteInit ==
  /\ refSegments \in NumberSegmentLists(NonFiniteMaxRefLen)
  /\ sysSegments \in NumberSegmentLists(NonFiniteMaxSysLen)
  /\ collar \in 0..MaxCollar
  /\ pc = "call"
  /\ intervals = <<>>
  /\ overlapTotals = <<>>
  /\ scoredSpeechTime = 0
  /\ sysToRefMapping = [k \in {} |-> ""]
  /\ missedSpeechTime = 0
  /\ falseAlarmTime = 0
  /\ speakerErrorTime = 0
  /\ metrics = NoMetrics
  /\ RttmIdle
  /\ EditIdle

SpecNonFinite == NonFiniteInit /\ [][Next]_vars

HasFiniteBounds(seg) == IsFiniteNumber(seg.start) /\ IsFiniteNumber(seg.end)

\* The list without the segments that have a bound that is not finite.
FiniteOnly(segs) == SelectSeq(segs, HasFiniteBounds)

IntervalsAndSets(ivs) ==
  [i \in DOMAIN ivs |->
     [start |-> ivs[i].start, end |-> ivs[i].end, ref |-> ivs[i].ref, sys |-> ivs[i].sys]]

\* The part of C23 about the interval bounds: all finite and strictly ascending.
NonFiniteBoundsFiltered ==
  Done =>
    /\ \A i \in DOMAIN intervals :
          IsFiniteNumber(intervals[i].start) /\ IsFiniteNumber(intervals[i].end)
    /\ \A i \in DOMAIN intervals : intervals[i].start < intervals[i].end
    /\ \A i \in 1..(Len(intervals) - 1) : intervals[i].end = intervals[i + 1].start

\* C23: a segment with a NaN or infinite start or end contributes no boundary
\* and changes nothing: the returned interval bounds are finite and strictly
\* ascending, and the intervals with their reference and system speaker sets are
\* those of the call on the lists without such segments.
C23_NonFiniteSegmentIgnored ==
  Done =>
    /\ NonFiniteBoundsFiltered
    /\ \E clean \in {ResultOf(FiniteOnly(refSegments), FiniteOnly(sysSegments), collar)} :
          IntervalsAndSets(clean.intervals) =
             IntervalsAndSets(Returned(intervals, metrics).intervals)

\* The part of C23 about the segments with finite bounds alone: such a segment
\* is active, with its speaker in the interval's set, in every returned interval
\* that it covers.
FiniteSegmentsStayActive ==
  Done =>
    \A k \in DOMAIN refSegments :
       HasFiniteBounds(refSegments[k]) =>
          \A i \in DOMAIN intervals :
             (AdjStart(refSegments[k]) <= intervals[i].start
                /\ intervals[i].start < AdjEnd(refSegments[k]))
             => refSegments[k].speakerId \in Range(intervals[i].ref)

\* ---- interval lengths ----
HasZeroLengthSegment(segs) == \E i \in DOMAIN segs : segs[i].start = segs[i].end

\* C24: every returned interval has end > start, and every entry of the overlap
\* table is > 0, also when the lists hold segments of length zero.
C24_NoZeroLengthInterval ==
  Done =>
    /\ \A i \in DOMAIN intervals : intervals[i].end > intervals[i].start
    /\ \A i \in DOMAIN overlapTotals :
          \A j \in DOMAIN overlapTotals[i].sysMap :
             overlapTotals[i].sysMap[j].duration > 0

\* Both lists hold a segment of length zero (not padded by a collar) whose bound
\* is also a bound of another segment, and the table has an entry.
C24_Witness ==
  /\ Done
  /\ collar = 0
  /\ HasZeroLengthSegment(refSegments)
  /\ HasZeroLengthSegment(sysSegments)
  /\ \E i, k \in DOMAIN refSegments :
        /\ refSegments[i].start = refSegments[i].end
        /\ refSegments[k].start < refSegments[k].end
        /\ refSegments[i].start \in {refSegments[k].start, refSegments[k].end}
  /\ overlapTotals # <<>>
  /\ Len(intervals) >= 2

\* ======================= computeDER on long recordings =======================
\* A fourth family of arguments: next to the small times, one time so large
\* that the numbers around it are 8 ticks apart.
RoundingMaxT == 2
RoundingMaxLen == 2

LongTime == 2^(SignificandBits + 2) + 8

RoundingTimes == (0..RoundingMaxT) \cup {LongTime}

RoundingSegment ==
  {s \in [speakerId : TurnSpeakerIds, start : RoundingTimes, end : RoundingTimes] :
     s.start <= s.end}

RoundingSegmentLists == UNION {[1..n -> RoundingSegment] : n \in 0..RoundingMaxLen}

RoundingInit ==
  /\ refSegments \in RoundingSegmentLists
  /\ sysSegments \in RoundingSegmentLists
  /\ collar \in 0..MaxCollar
  /\ pc = "call"
  /\ intervals = <<>>
  /\ overlapTotals = <<>>
  /\ scoredSpeechTime = 0
  /\ sysToRefMapping = [k \in {} |-> ""]
  /\ missedSpeechTime = 0
  /\ falseAlarmTime = 0
  /\ speakerErrorTime = 0
  /\ metrics = NoMetrics
  /\ RttmIdle
  /\ EditIdle

SpecRounding == RoundingInit /\ [][Next]_vars

NoNegativeMetric ==
  /\ metrics.MS >= 0
  /\ metrics.FA >= 0
  /\ metrics.SER >= 0
  /\ metrics.DER >= 0
  /\ metrics.scored >= 0

ExactSums ==
  \A i \in DOMAIN intervals :
     intervals[i].start >= 0 /\ intervals[i].end <= 2^SignificandBits

Reorderings(segs) ==
  {[i \in DOMAIN segs |-> segs[p[i]]] :
     p \in {f \in [DOMAIN segs -> DOMAIN segs] :
              \A i, j \in DOMAIN segs : i # j => f[i] # f[j]}}

\* Two results agree on everything but the split between OK and SER.
SameUpToSpeakerError(r, q) ==
  /\ Len(r.intervals) = Len(q.intervals)
  /\ \A i \in DOMAIN r.intervals :
        /\ r.intervals[i].start = q.intervals[i].start
        /\ r.intervals[i].end = q.intervals[i].end
        /\ r.intervals[i].ref = q.intervals[i].ref
        /\ r.intervals[i].sys = q.intervals[i].sys
        /\ r.intervals[i].type = "MS" <=> q.intervals[i].type = "MS"
        /\ r.intervals[i].type = "FA" <=> q.intervals[i].type = "FA"
  /\ r.metrics.scored = q.metrics.scored
  /\ r.metrics.MS = q.metrics.MS
  /\ r.metrics.FA = q.metrics.FA

\* C26: the call on the same segments in another order, within the reference
\* list and within the system list, returns the same interval bounds, the same
\* reference and system speaker sets for each interval, and the same scored, MS
\* and FA; only the split between OK and SER may differ.
C26_OrderIndependent ==
  Done =>
    \A r \in Reorderings(refSegments) : \A s \in Reorderings(sysSegments) :
       SameUpToSpeakerError(ResultOf(r, s, collar), Returned(intervals, metrics))

\* The same law for lists whose times are all finite.
AllTimesFinite ==
  /\ \A i \in DOMAIN refSegments : HasFiniteBounds(refSegments[i])
  /\ \A i \in DOMAIN sysSegments : HasFiniteBounds(sysSegments[i])

OrderIndependentOnFiniteTimes ==
  (Done /\ AllTimesFinite) =>
    \A r \in Reorderings(refSegments) : \A s \in Reorderings(sysSegments) :
       SameUpToSpeakerError(ResultOf(r, s, collar), Returned(intervals, metrics))

\* ---- the two arguments exchanged ----
\* The call with the system list as reference and the reference list as system.
SwappedCall == ResultOf(sysSegments, refSegments, collar)

\* C27: computeDER(sys, ref) with the same collar returns the same interval
\* bounds as computeDER(ref, sys), and an interval is typed MS in one result
\* exactly when it is typed FA in the other.
C27_SwapExchangesMissAndFalseAlarm ==
  Done =>
    \E q \in {SwappedCall} :
       /\ Len(q.intervals) = Len(intervals)
       /\ \A i \in DOMAIN intervals :
             /\ q.intervals[i].start = intervals[i].start
             /\ q.intervals[i].end = intervals[i].end
             /\ intervals[i].type = "MS" <=> q.intervals[i].type = "FA"
             /\ intervals[i].type = "FA" <=> q.intervals[i].type = "MS"

\* A call that returns a missed interval, a false alarm and an interval with
\* both kinds of speech, with a collar.
C27_Witness ==
  /\ Done
  /\ collar > 0
  /\ \E i, j, k \in DOMAIN intervals :
        /\ intervals[i].type = "MS"
        /\ intervals[j].type = "FA"
        /\ Len(intervals[k].ref) > 0 /\ Len(intervals[k].sys) > 0

\* ======================= deleting a segment and undoing it =======================
Count(segs, x) == Cardinality({i \in DOMAIN segs : segs[i] = x})

\* A step of removeTimeSegment: the only one that starts a timer.
DeleteStep == timers' = timers + 1

\* A step of the undo closure that restores: the only one that empties
\* lastDeletedRef.
UndoStep == lastDeletedRef # <<>> /\ lastDeletedRef' = <<>>

\* The deletion takes out of the list the segment it keeps for undo, once.
RemovedExactlyTheSnapshot ==
  \A x \in Range(sysSegments) :
     Count(sysSegments', x) =
        Count(sysSegments, x) - (IF x = lastDeletedRef'[1] THEN 1 ELSE 0)

\* The undo puts the kept segment back, once, and the list is sorted by start.
RestoredExactlyTheSnapshot ==
  /\ \A x \in Range(sysSegments') :
        Count(sysSegments', x) =
           Count(sysSegments, x) + (IF x = lastDeletedRef[1] THEN 1 ELSE 0)
  /\ IsSortedByStart(sysSegments')

\* C28: a deletion followed by the offered undo gives back the list of before
\* the deletion, sorted by start: the deletion removes exactly the segment kept
\* in lastDeletedRef (the most recently deleted one) and the undo adds exactly
\* that segment; after the undo nothing is kept and no undo is offered, so a
\* second undo adds nothing.
C28_UndoRestoresDeleted ==
  [][/\ DeleteStep => RemovedExactlyTheSnapshot
     /\ UndoStep => (RestoredExactlyTheSnapshot /\ ~toast')
     /\ toast' => lastDeletedRef' # <<>>]_vars

UniqueIds(segs) ==
  \A i, j \in DOMAIN segs : i # j => segs[i].id # segs[j].id

\* The same law for the deletions made while no two segments of the list have
\* the same id.
UndoRestoresDeletedWithUniqueIds ==
  [][/\ (DeleteStep /\ UniqueIds(sysSegments)) => RemovedExactlyTheSnapshot
     /\ UndoStep => (RestoredExactlyTheSnapshot /\ ~toast')
     /\ toast' => lastDeletedRef' # <<>>]_vars

\* ======================= segments and the speaker legend =======================
\* C29: every segment of the system track has the id of a speaker of the legend,
\* whatever was created, deleted, undone, added or removed; the segments of a
\* removed speaker are gone for good.
C29_SegmentsHaveLegendSpeaker ==
  \A i \in DOMAIN sysSegments : sysSegments[i].speakerId \in Range(speakers)

\* ======================= the timers of the undo toast =======================
\* Timers of the same delay fire in the order they were started, so the timer of
\* the latest deletion is pending as long as any timer is; lastDeletedRef is
\* emptied by the undo alone.
\* C30: as long as the timer of the latest deletion has not fired and its undo
\* has not been used, its toast is on the screen: no timer of an earlier
\* deletion takes it away.
C30_ToastOutlivesEarlierTimers ==
  (timers > 0 /\ lastDeletedRef # <<>>) => toast

====
